---- MODULE Spec2Model ----
(***************************************************************************)
(* A model of the spotapi metadata server: the Flask handlers of main.py   *)
(* behind the shared cachetools TTLCache, the PublicTrack / PublicAlbum /  *)
(* PublicPlaylist resources of spotapi/spotify.py with their paginating    *)
(* generators, and the exception classes of spotapi/exceptions/errors.py.  *)
(*                                                                         *)
(* Strings are sequences of one-character strings, so that re.search,     *)
(* the `in` test and str.split are computed character by character.       *)
(***************************************************************************)
EXTENDS Integers, Sequences, FiniteSets, TLC

VARIABLES
    nIn,        \* SpecNormalize: the string handed to extract_spotify_id
    nOut,       \* SpecNormalize: the results of its successive applications
    obj,        \* SpecResource: the resource object the caller holds
    gen,        \* SpecResource: the generator the caller holds
    last,       \* SpecResource: what the last call on obj or gen ended in
    calls,      \* SpecResource: the number of posts handed to the Transport
    upTotal,    \* SpecResource: the size of the upstream collection
    upChanges,  \* SpecResource: how often the upstream collection changed
    now,        \* Spec: the clock of the cache (time.monotonic), in seconds
    cache,      \* Spec: metadata_cache, its entries in the order of use
    config,     \* Spec: the keys limit and offset of app.config
    srvPosts,   \* Spec: the number of posts the handlers made
    hist,       \* Spec: per cache key, the last value stored and when
    http,       \* Spec: the last request and the response to it
    thr,        \* SpecConcurrent: per worker thread, where its call stands
    currsize    \* SpecConcurrent: Cache.__currsize of metadata_cache

normVars == <<nIn, nOut>>
libVars == <<obj, gen, last, calls, upTotal, upChanges>>
srvVars == <<now, cache, config, srvPosts, hist, http>>
concVars == <<thr, currsize>>
vars == <<normVars, libVars, srvVars, concVars>>

----------------------------------------------------------------------------
(* Strings                                                                 *)

SPOTIFY_COM == <<"s","p","o","t","i","f","y",".","c","o","m","/">>
TRACK == <<"t","r","a","c","k">>
ALBUM == <<"a","l","b","u","m">>
PLAYLIST == <<"p","l","a","y","l","i","s","t">>
SLASH == <<"/">>
EMPTY == <<>>

Alnum == {"a","b","c","d","e","f","g","h","i","j","k","l","m","n","o","p","q","r","s","t","u","v","w","x","y","z","A","B","C","D","E","F","G","H","I","J","K","L","M","N","O","P","Q","R","S","T","U","V","W","X","Y","Z","0","1","2","3","4","5","6","7","8","9"}

\* {22} of the three patterns
TokenLen == 22

\* the literal s occurs in str starting at index i
OccursAt(s, str, i) ==
    /\ i >= 1
    /\ i + Len(s) - 1 <= Len(str)
    /\ SubSeq(str, i, i + Len(s) - 1) = s

\* Python's `s in str`
Contains(s, str) == \E i \in 1..(Len(str) + 1) : OccursAt(s, str, i)

Min(S) == CHOOSE x \in S : \A y \in S : x <= y
Max(S) == CHOOSE x \in S : \A y \in S : x >= y

\* str.split(sep)[-1]: what follows the last occurrence of sep, the whole
\* string when sep does not occur
SplitLast(str, sep) ==
    LET P == {i \in 1..Len(str) : OccursAt(sep, str, i)} IN
    IF P = {} THEN str
    ELSE SubSeq(str, Max(P) + Len(sep), Len(str))

----------------------------------------------------------------------------
(* main.py: extract_spotify_id                                             *)

\* the three regular expressions, in the order of the list `patterns`:
\* each is the literal spotify.com/<kind>/ followed by a group of 22
\* characters of [a-zA-Z0-9]
patterns == << SPOTIFY_COM \o TRACK \o SLASH,
               SPOTIFY_COM \o ALBUM \o SLASH,
               SPOTIFY_COM \o PLAYLIST \o SLASH >>

\* the pattern matches with its literal at index i
MatchesAt(lit, url, i) ==
    /\ OccursAt(lit, url, i)
    /\ i + Len(lit) + TokenLen - 1 <= Len(url)
    /\ \A j \in (i + Len(lit))..(i + Len(lit) + TokenLen - 1) : url[j] \in Alnum

\* a search that captures everything after the literal instead of 22
\* characters
re_search_greedy(lit, url) ==
    LET P == {i \in 1..Len(url) : MatchesAt(lit, url, i)} IN
    IF P = {} THEN [matched |-> FALSE, group1 |-> EMPTY]
    ELSE [matched |-> TRUE,
          group1  |-> SubSeq(url, Min(P) + Len(lit), Len(url))]

\* re.search(pattern, url): the leftmost match, and its group(1)
re_search(lit, url) ==
    LET P == {i \in 1..Len(url) : MatchesAt(lit, url, i)} IN
    IF P = {} THEN [matched |-> FALSE, group1 |-> EMPTY]
    ELSE [matched |-> TRUE,
          group1  |-> SubSeq(url, Min(P) + Len(lit),
                             Min(P) + Len(lit) + TokenLen - 1)]

extract_spotify_id(url) ==
    LET hits == {n \in 1..Len(patterns) : re_search(patterns[n], url).matched} IN
    IF hits = {} THEN url
    ELSE re_search(patterns[Min(hits)], url).group1

----------------------------------------------------------------------------
(* The inputs of the model                                                 *)

HostPrefix == <<"h","t","t","p","s",":","/","/","o","p","e","n",".">>
RegionPath == <<"i","n","t","l","-","d","e","/">>
QuerySuffix == <<"?","s","i","=","a","b">>
PathSuffix == <<"/","x">>
TokenA == <<"4","u","L","U","6","h","M","C","j","M","I","7","5","M","1","A","2","t","K","U","Q","C">>
TokenB == <<"0","t","r","a","c","k","Z","k","9","b","B","P","x","c","J","2","a","l","b","u","m","X">>
ShortId == <<"a","b","c">>
CLEAR == <<"c","l","e","a","r">>

Kinds == {TRACK, ALBUM, PLAYLIST}
Tokens == {TokenA, TokenB}
Prefixes == {EMPTY, HostPrefix}
Suffixes == {EMPTY, QuerySuffix, PathSuffix}

\* <prefix>spotify.com/<kind>/<token><suffix>
CanonicalUrl(pre, kind, tok, suf) ==
    pre \o SPOTIFY_COM \o kind \o SLASH \o tok \o suf

CanonicalUrls ==
    {CanonicalUrl(pre, kind, tok, suf) :
        pre \in Prefixes, kind \in Kinds, tok \in Tokens, suf \in Suffixes}

\* https://open.spotify.com/intl-de/<kind>/<token><suffix>: a path segment
\* stands between the host and the kind
RegionalUrl(kind, tok, suf) ==
    HostPrefix \o SPOTIFY_COM \o RegionPath \o kind \o SLASH \o tok \o suf

RegionalUrls ==
    {RegionalUrl(kind, tok, suf) :
        kind \in Kinds, tok \in Tokens, suf \in Suffixes}

\* relative forms <kind>/<token>, <kind>/ and other short strings
RelativeInputs ==
    {kind \o SLASH \o tok : kind \in Kinds, tok \in Tokens}
        \cup {kind \o SLASH : kind \in Kinds}
        \cup {ShortId, CLEAR}

\* a canonical URL cut after 21 characters of its token
TruncatedUrls ==
    {HostPrefix \o SPOTIFY_COM \o kind \o SLASH \o SubSeq(tok, 1, TokenLen - 1) :
        kind \in Kinds, tok \in Tokens}

\* an album URL whose path suffix holds a second, track, pattern
NestedUrls ==
    {CanonicalUrl(HostPrefix, ALBUM, TokenA,
                  SLASH \o SPOTIFY_COM \o TRACK \o SLASH \o TokenB)}

NormInputs ==
    CanonicalUrls \cup RegionalUrls \cup RelativeInputs \cup TruncatedUrls
        \cup NestedUrls \cup Tokens

----------------------------------------------------------------------------
(* spotapi/exceptions/errors.py                                            *)

\* ParentException.__init__(message, error=None): str(e) is the message,
\* e.error the upstream detail
ParentException(class, message, error) ==
    [class |-> class, message |-> message, error |-> error]

\* an exception of the interpreter: it has no field `error`
BuiltinException(class, message) ==
    [class |-> class, message |-> message, error |-> "<no attribute>"]

NoException == [class |-> "none", message |-> "", error |-> "None"]

----------------------------------------------------------------------------
(* The Transport and the upstream service behind it (TLSClient.post)       *)

\* what one post can end in: a mapping of the expected nesting, a transport
\* failure, a payload that is no mapping, a mapping without the nesting
TransportOutcomes == {"ok", "fail", "not_mapping", "no_data"}

\* resp.error.string of a failed post
ErrorStrings == {"timeout", "status 429"}

\* the outcome of a post, with resp.error.string when it fails
PostOutcomes ==
    {<<o, "None">> : o \in TransportOutcomes \ {"fail"}}
        \cup {<<"fail", d>> : d \in ErrorStrings}

\* items offset .. offset+limit-1 of a collection of `total` items, the
\* items being numbered from 0
Slice(offset, limit, total) ==
    LET n == IF offset >= total \/ limit <= 0 THEN 0
             ELSE IF offset + limit <= total THEN limit ELSE total - offset
    IN  [i \in 1..n |-> offset + i - 1]

NoPayload == [isMapping |-> FALSE, nested |-> FALSE, op |-> "none",
              id |-> EMPTY, serial |-> 0, items |-> <<>>, totalCount |-> 0]

\* the Response of the post number `serial` to request req, the upstream
\* collection holding `total` items
TransportPost(req, outcome, detail, total, serial) ==
    CASE outcome = "fail" ->
            [fail |-> TRUE, error |-> detail, response |-> NoPayload]
      [] outcome = "not_mapping" ->
            [fail |-> FALSE, error |-> "None", response |-> NoPayload]
      [] outcome = "no_data" ->
            [fail |-> FALSE, error |-> "None",
             response |-> [NoPayload EXCEPT !.isMapping = TRUE,
                                            !.op = req.operationName,
                                            !.id = req.id,
                                            !.serial = serial]]
      [] OTHER ->
            [fail |-> FALSE, error |-> "None",
             response |-> [isMapping |-> TRUE, nested |-> TRUE,
                           op |-> req.operationName, id |-> req.id,
                           serial |-> serial,
                           items |-> IF req.operationName = "getTrack" THEN <<>>
                                     ELSE Slice(req.offset, req.limit, total),
                           totalCount |-> IF req.operationName = "getTrack" THEN 0
                                          ELSE total]]

----------------------------------------------------------------------------
(* spotapi/spotify.py: PublicTrack, PublicAlbum, PublicPlaylist            *)

ResourceKinds == {"track", "album", "playlist"}

KindWord(kind) ==
    CASE kind = "track" -> TRACK
      [] kind = "album" -> ALBUM
      [] OTHER -> PLAYLIST

\* the argument None of a constructor
NoneArg == [isNone |-> TRUE, str |-> EMPTY]
StrArg(str) == [isNone |-> FALSE, str |-> str]

\* `if track:` is false for None and for the empty string
Truthy(arg) == ~arg.isNone /\ arg.str # EMPTY

\* __init__: the slot track_id (album_id, playlist_id) is assigned only
\* under `if track:`; a slot never assigned has no value
PublicResource_init(kind, arg) ==
    IF Truthy(arg)
    THEN [kind |-> kind, assigned |-> TRUE,
          id |-> IF Contains(KindWord(kind), arg.str)
                 THEN SplitLast(arg.str, KindWord(kind) \o SLASH) ELSE arg.str]
    ELSE [kind |-> kind, assigned |-> FALSE, id |-> EMPTY]

NoObject == [kind |-> "none", assigned |-> FALSE, id |-> EMPTY]

operationName(kind) ==
    CASE kind = "track" -> "getTrack"
      [] kind = "album" -> "getAlbum"
      [] OTHER -> "fetchPlaylist"

\* every kind raising TrackError
ErrorClassOfTrack(kind) == "TrackError"

\* the exception class each get_*_info raises
ErrorClass(kind) ==
    CASE kind = "track" -> "TrackError"
      [] kind = "album" -> "AlbumError"
      [] OTHER -> "PlaylistError"

FailMessage(kind) ==
    CASE kind = "track" -> "Could not get track info"
      [] kind = "album" -> "Could not get album info"
      [] OTHER -> "Could not get playlist info"

IdNotSetMessage(kind) ==
    CASE kind = "track" -> "Track ID not set"
      [] kind = "album" -> "Album ID not set"
      [] OTHER -> "Playlist ID not set"

SlotMessage(kind) ==
    CASE kind = "track" -> "'PublicTrack' object has no attribute 'track_id'"
      [] kind = "album" -> "'PublicAlbum' object has no attribute 'album_id'"
      [] OTHER -> "'PublicPlaylist' object has no attribute 'playlist_id'"

\* the default of the parameter limit of get_album_info / get_playlist_info
DEFAULT_LIMIT == 25

\* the variables of the query: Track sends the uri alone
Request(self, limit, offset) ==
    [operationName |-> operationName(self.kind), id |-> self.id,
     limit  |-> IF self.kind = "track" THEN 0 ELSE limit,
     offset |-> IF self.kind = "track" THEN 0 ELSE offset]

NoRequest == [operationName |-> "none", id |-> EMPTY, limit |-> 0, offset |-> 0]

\* a get_*_info that reports a payload that is no mapping as it reports a
\* failure of the transport, "Invalid JSON" being the error detail
get_info_detail(self, resp) ==
    IF ~self.assigned
    THEN [exc |-> BuiltinException("AttributeError", SlotMessage(self.kind)),
          data |-> NoPayload, posts |-> 0]
    ELSE IF self.id = EMPTY
    THEN [exc |-> BuiltinException("ValueError", IdNotSetMessage(self.kind)),
          data |-> NoPayload, posts |-> 0]
    ELSE IF resp.fail \/ ~resp.response.isMapping
    THEN [exc |-> ParentException(ErrorClass(self.kind), FailMessage(self.kind),
                                  IF resp.fail THEN resp.error
                                  ELSE "Invalid JSON"),
          data |-> NoPayload, posts |-> 1]
    ELSE [exc |-> NoException, data |-> resp.response, posts |-> 1]

\* get_track_info / get_album_info / get_playlist_info, resp being the
\* Response of the post when the call reaches it. The result is what the
\* call returned or raised, and how many posts it made
get_info(self, resp) ==
    IF ~self.assigned
    THEN [exc |-> BuiltinException("AttributeError", SlotMessage(self.kind)),
          data |-> NoPayload, posts |-> 0]
    ELSE IF self.id = EMPTY
    THEN [exc |-> BuiltinException("ValueError", IdNotSetMessage(self.kind)),
          data |-> NoPayload, posts |-> 0]
    ELSE IF resp.fail
    THEN [exc |-> ParentException(ErrorClass(self.kind),
                                  FailMessage(self.kind), resp.error),
          data |-> NoPayload, posts |-> 1]
    ELSE IF ~resp.response.isMapping
    THEN [exc |-> ParentException(ErrorClass(self.kind), "Invalid JSON", "None"),
          data |-> NoPayload, posts |-> 1]
    ELSE [exc |-> NoException, data |-> resp.response, posts |-> 1]

\* UPPER_LIMIT of paginate_album_tracks and of paginate_playlist
UPPER_LIMIT_ALBUM == 50
UPPER_LIMIT_PLAYLIST == 343

UPPER_LIMIT(kind) ==
    IF kind = "album" THEN UPPER_LIMIT_ALBUM ELSE UPPER_LIMIT_PLAYLIST

\* a generator object: where its frame is suspended and the locals offset
\* and total_count. posted and chunks record, for this generator alone, the
\* requests it handed to the Transport and the chunks it yielded;
\* upChanged records that the upstream collection changed under it
NoGenerator ==
    [pc |-> "none", offset |-> 0, total_count |-> 0,
     posted |-> <<>>, chunks |-> <<>>, upChanged |-> FALSE, n |-> 0]

\* a generator that takes over the locals and the records of the last one
NewGeneratorStale(n) == [gen EXCEPT !.pc = "created", !.n = n]

\* calling paginate_album_tracks() / paginate_playlist() runs nothing yet;
\* n counts the generators made from the object
NewGenerator(n) == [NoGenerator EXCEPT !.pc = "created", !.n = n]

GenLive(g) == g.pc \in {"created", "first", "loop"}

\* the nested collection album["data"]["albumUnion"]["tracks"] or
\* playlist["data"]["playlistV2"]["content"], which is what is yielded
Collection(data) ==
    [items |-> data.items, totalCount |-> data.totalCount, serial |-> data.serial]

NoChunk == [items |-> <<>>, totalCount |-> 0, serial |-> 0]

\* a generator that fetches the next page whenever the last page was full,
\* so also when total_count equals UPPER_LIMIT
NextOffsetInclusive(self, g) ==
    CASE g.pc = "created" -> 0
      [] g.pc = "first" ->
            IF g.total_count < UPPER_LIMIT(self.kind) THEN -1
            ELSE UPPER_LIMIT(self.kind)
      [] g.pc = "loop" ->
            IF g.offset + UPPER_LIMIT(self.kind) <= g.total_count
            THEN g.offset + UPPER_LIMIT(self.kind) ELSE -1
      [] OTHER -> -1

\* the offset of the fetch the next resumption makes; -1 when it makes none
\* and the generator returns
NextOffset(self, g) ==
    CASE g.pc = "created" -> 0
      [] g.pc = "first" ->
            IF g.total_count <= UPPER_LIMIT(self.kind) THEN -1
            ELSE UPPER_LIMIT(self.kind)
      [] g.pc = "loop" ->
            IF g.offset + UPPER_LIMIT(self.kind) < g.total_count
            THEN g.offset + UPPER_LIMIT(self.kind) ELSE -1
      [] OTHER -> -1

\* the request of the next resumption of g
GenRequest(self, g) == Request(self, UPPER_LIMIT(self.kind), NextOffset(self, g))

\* a generator that answers a failed fetch with an empty chunk and goes on
\* to the next offset
GenNextResilient(self, g, resp) ==
    LET off == NextOffset(self, g)
        r == get_info(self, resp)
        sent == IF r.posts = 1 THEN Append(g.posted, GenRequest(self, g))
                ELSE g.posted
        ok == r.exc = NoException /\ r.data.nested
    IN  IF off < 0
        THEN [gen |-> [g EXCEPT !.pc = "done"], event |-> "return",
              chunk |-> NoChunk, exc |-> NoException, posts |-> 0]
        ELSE IF r.posts = 0
        THEN [gen |-> [g EXCEPT !.pc = "raised"], event |-> "raise",
              chunk |-> NoChunk, exc |-> r.exc, posts |-> 0]
        ELSE [gen |-> [g EXCEPT !.pc = IF g.pc = "created" THEN "first" ELSE "loop",
                                !.offset = off,
                                !.total_count = IF g.pc # "created" THEN g.total_count
                                                ELSE IF ok THEN r.data.totalCount
                                                ELSE 0,
                                !.posted = sent,
                                !.chunks = Append(g.chunks,
                                                  IF ok THEN Collection(r.data)
                                                  ELSE NoChunk)],
              event |-> "yield",
              chunk |-> IF ok THEN Collection(r.data) ELSE NoChunk,
              exc |-> NoException, posts |-> r.posts]

\* one resumption of the generator (next(g)) of paginate_album_tracks /
\* paginate_playlist: up to the next yield, the return or an exception.
\* resp is the Response of the post, when one is made
GenNext(self, g, resp) ==
    LET off == NextOffset(self, g)
        r == get_info(self, resp)
        sent == IF r.posts = 1 THEN Append(g.posted, GenRequest(self, g))
                ELSE g.posted
    IN  IF off < 0
        THEN [gen |-> [g EXCEPT !.pc = "done"], event |-> "return",
              chunk |-> NoChunk, exc |-> NoException, posts |-> 0]
        ELSE IF r.exc # NoException
        THEN [gen |-> [g EXCEPT !.pc = "raised", !.posted = sent],
              event |-> "raise", chunk |-> NoChunk, exc |-> r.exc,
              posts |-> r.posts]
        ELSE IF ~r.data.nested
        THEN [gen |-> [g EXCEPT !.pc = "raised", !.posted = sent],
              event |-> "raise", chunk |-> NoChunk,
              exc |-> BuiltinException("KeyError", "'data'"), posts |-> r.posts]
        ELSE [gen |-> [g EXCEPT !.pc = IF g.pc = "created" THEN "first" ELSE "loop",
                                !.offset = off,
                                !.total_count = IF g.pc = "created"
                                                THEN r.data.totalCount
                                                ELSE g.total_count,
                                !.posted = sent,
                                !.chunks = Append(g.chunks, Collection(r.data))],
              event |-> "yield", chunk |-> Collection(r.data),
              exc |-> NoException, posts |-> r.posts]

----------------------------------------------------------------------------
(* main.py: metadata_cache = TTLCache(maxsize=100, ttl=3600) and the       *)
(* decorator @cached(metadata_cache), as cachetools defines them           *)

\* what a view function returns: jsonify(data), or the pair
\* (jsonify({'error': str(e)}), 404). excClass and mode record which
\* exception was caught and which branch ran
OkValue(data, mode) ==
    [status |-> 200, error |-> "none", data |-> data, excClass |-> "none",
     mode |-> mode]

\* an except clause that answers 400 to ValueError, 404 to the resource
\* errors and 500 to the rest
ErrorValueByKind(exc, mode) ==
    [status |-> IF exc.class = "ValueError" THEN 400
                ELSE IF exc.class \in {"TrackError", "AlbumError", "PlaylistError"}
                THEN 404 ELSE 500,
     error |-> exc.message, data |-> NoPayload,
     excClass |-> exc.class, mode |-> mode]

ErrorValue(exc, mode) ==
    [status |-> 404, error |-> exc.message, data |-> NoPayload,
     excClass |-> exc.class, mode |-> mode]

\* no value: the key is not in the cache
NoValue ==
    [status |-> 0, error |-> "none", data |-> NoPayload, excClass |-> "none",
     mode |-> "none"]

maxsize == 100
ttl == 3600

\* a key made of the argument's value alone, whatever its name
hashkey_positional(kw, arg) == [kw |-> "", arg |-> arg]

\* cachetools.keys.hashkey(*args, **kwargs): the positional arguments, then
\* the keyword arguments with their names. Flask calls a view with the URL
\* variable as a keyword argument, handle_full_url calls it positionally
hashkey(kw, arg) == [kw |-> kw, arg |-> arg]

IndexOf(c, k) ==
    LET P == {i \in 1..Len(c) : c[i].key = k} IN
    IF P = {} THEN 0 ELSE Min(P)

Without(c, k) == SelectSeq(c, LAMBDA e : e.key # k)

\* a lookup whose hit renews the entry's time to live
cache_getitem_sliding(c, k, t) ==
    LET i == IndexOf(c, k) IN
    IF i = 0 THEN [hit |-> FALSE, cache |-> c, value |-> NoValue]
    ELSE [hit   |-> t < c[i].expires,
          cache |-> Append(Without(c, k),
                           IF t < c[i].expires
                           THEN [c[i] EXCEPT !.expires = t + ttl] ELSE c[i]),
          value |-> c[i].value]

\* a lookup that leaves the order of the entries alone
cache_getitem_unordered(c, k, t) ==
    LET i == IndexOf(c, k) IN
    IF i = 0 THEN [hit |-> FALSE, cache |-> c, value |-> NoValue]
    ELSE [hit |-> t < c[i].expires, cache |-> c, value |-> c[i].value]

\* a lookup that still serves an entry at the instant it expires
cache_getitem_inclusive(c, k, t) ==
    LET i == IndexOf(c, k) IN
    IF i = 0 THEN [hit |-> FALSE, cache |-> c, value |-> NoValue]
    ELSE [hit   |-> t <= c[i].expires,
          cache |-> Append(Without(c, k), c[i]),
          value |-> c[i].value]

\* TTLCache.__getitem__(k) at time t: the entry is moved to the end of the
\* order of use, and counts as missing (KeyError) once t < expires fails
cache_getitem(c, k, t) ==
    LET i == IndexOf(c, k) IN
    IF i = 0 THEN [hit |-> FALSE, cache |-> c, value |-> NoValue]
    ELSE [hit   |-> t < c[i].expires,
          cache |-> Append(Without(c, k), c[i]),
          value |-> c[i].value]

\* TTLCache.expire(t): every entry with expires <= t is removed
expire(c, t) == SelectSeq(c, LAMBDA e : t < e.expires)

\* TTLCache.__setitem__(k, v) at time t: expire(t); when k is new, popitem()
\* removes the least recently used entries until one more fits; the entry
\* is (re)linked at the end with expires = t + ttl
cache_setitem(c, k, v, t) ==
    LET live == expire(c, t)
        room == IF IndexOf(live, k) = 0 /\ Len(live) + 1 > maxsize
                THEN SubSeq(live, Len(live) + 2 - maxsize, Len(live))
                ELSE live
    IN  Append(Without(room, k), [key |-> k, value |-> v, expires |-> t + ttl])

\* the keys cache_setitem(c, k, v, t) evicts for lack of room
Evicted(c, k, t) ==
    LET live == expire(c, t) IN
    IF IndexOf(live, k) = 0 /\ Len(live) + 1 > maxsize
    THEN {live[i].key : i \in 1..(Len(live) + 1 - maxsize)}
    ELSE {}

----------------------------------------------------------------------------
(* main.py: the handlers                                                   *)

\* app.config holds neither 'limit' nor 'offset' unless someone sets them
NoConfig == [hasLimit |-> FALSE, limit |-> 0, hasOffset |-> FALSE, offset |-> 0]

\* int(app.config.get(name, default))
ALBUM_DEFAULT_LIMIT == 50
PLAYLIST_DEFAULT_LIMIT == 343

ConfigLimit(cfg, kind) ==
    IF cfg.hasLimit THEN cfg.limit
    ELSE IF kind = "album" THEN ALBUM_DEFAULT_LIMIT ELSE PLAYLIST_DEFAULT_LIMIT

ConfigOffset(cfg) == IF cfg.hasOffset THEN cfg.offset ELSE 0

\* the outcome of the i-th post of one handler call
OutcomeAt(outs, i) == outs[IF i <= Len(outs) THEN i ELSE Len(outs)]

\* the size of the upstream collection at the i-th post: an outcome may
\* carry, as its third component, the size the collection has by then;
\* without one the collection holds `total` items as before
TotalAt(outs, i, total) ==
    IF Len(OutcomeAt(outs, i)) > 2 THEN OutcomeAt(outs, i)[3] ELSE total

\* the for loop over the generator: all_tracks.extend(chunk['items']) until
\* the generator returns or raises. k posts have been made by the handler
\* so far, serial numbers the posts of the server
RECURSIVE Drain(_, _, _, _, _, _, _)
\* a loop that takes an exception of the generator for its end
DrainStepLenient(self, r, all_tracks, outs, k, total, serial) ==
    CASE r.event \in {"return", "raise"} ->
            [exc |-> NoException, all_tracks |-> all_tracks,
             posts |-> k + r.posts]
      [] OTHER ->
            Drain(self, r.gen, all_tracks \o r.chunk.items, outs,
                  k + r.posts, total, serial)

\* one turn of the loop, r being what next() of the generator ended in
DrainStep(self, r, all_tracks, outs, k, total, serial) ==
    CASE r.event = "return" ->
            [exc |-> NoException, all_tracks |-> all_tracks, posts |-> k]
      [] r.event = "raise" ->
            [exc |-> r.exc, all_tracks |-> all_tracks, posts |-> k + r.posts]
      [] OTHER ->
            Drain(self, r.gen, all_tracks \o r.chunk.items, outs,
                  k + r.posts, total, serial)

Drain(self, g, all_tracks, outs, k, total, serial) ==
    DrainStep(self,
              GenNext(self, g,
                      TransportPost(GenRequest(self, g),
                                    OutcomeAt(outs, k + 1)[1],
                                    OutcomeAt(outs, k + 1)[2],
                                    TotalAt(outs, k + 1, total),
                                    serial + k + 1)),
              all_tracks, outs, k, total, serial)

\* statements after the loop that replace the items and leave totalCount
\* as it was fetched
ReplaceTracksKeepCount(d, r) ==
    IF r.exc # NoException
    THEN [value |-> ErrorValue(r.exc, "paginate"), posts |-> d.posts + r.posts]
    ELSE IF ~r.data.nested
    THEN [value |-> ErrorValue(BuiltinException("KeyError", "'data'"),
                               "paginate"),
          posts |-> d.posts + r.posts]
    ELSE [value |-> OkValue([r.data EXCEPT !.items = d.all_tracks], "paginate"),
          posts |-> d.posts + r.posts]

\* the statements after the loop, d being what the loop ended in and r
\* what the further get_*_info(limit=UPPER_LIMIT) ended in: its items and
\* totalCount are replaced
ReplaceTracks(d, r) ==
    IF r.exc # NoException
    THEN [value |-> ErrorValue(r.exc, "paginate"), posts |-> d.posts + r.posts]
    ELSE IF ~r.data.nested
    THEN [value |-> ErrorValue(BuiltinException("KeyError", "'data'"),
                               "paginate"),
          posts |-> d.posts + r.posts]
    ELSE [value |-> OkValue([r.data EXCEPT !.items = d.all_tracks,
                                           !.totalCount = Len(d.all_tracks)],
                            "paginate"),
          posts |-> d.posts + r.posts]

AfterLoop(self, d, outs, total, serial) ==
    IF d.exc # NoException
    THEN [value |-> ErrorValue(d.exc, "paginate"), posts |-> d.posts]
    ELSE ReplaceTracks(d,
            get_info(self,
                     TransportPost(Request(self, UPPER_LIMIT(self.kind), 0),
                                   OutcomeAt(outs, d.posts + 1)[1],
                                   OutcomeAt(outs, d.posts + 1)[2],
                                   TotalAt(outs, d.posts + 1, total),
                                   serial + d.posts + 1)))

\* the try block of get_album_metadata / get_playlist_metadata for
\* limit == -1: the loop, then the statements after it
PaginatedBody(self, outs, total, serial) ==
    AfterLoop(self, Drain(self, NewGenerator(1), <<>>, outs, 0, total, serial),
              outs, total, serial)

\* return jsonify(r) of what get_*_info returned, or the except clause
Jsonify(r, mode) ==
    IF r.exc # NoException
    THEN [value |-> ErrorValue(r.exc, mode), posts |-> r.posts]
    ELSE [value |-> OkValue(r.data, mode), posts |-> r.posts]

\* the standard retrieval: one get_*_info
SingleBody(self, limit, offset, outs, total, serial) ==
    Jsonify(get_info(self,
                     TransportPost(Request(self, limit, offset),
                                   OutcomeAt(outs, 1)[1], OutcomeAt(outs, 1)[2],
                                   TotalAt(outs, 1, total), serial + 1)),
            "single")

\* the first two statements of every view:
\*     track_id = extract_spotify_id(track_input); track = PublicTrack(track_id)
Resource(kind, input) ==
    PublicResource_init(kind, StrArg(extract_spotify_id(input)))

\* the strings that reach a view in the model, and Resource tabulated for
\* them
ViewInputs ==
    {TokenA, TokenB, TRACK \o SLASH, ALBUM \o SLASH, PLAYLIST \o SLASH,
     CanonicalUrl(EMPTY, TRACK, TokenA, EMPTY),
     CanonicalUrl(EMPTY, ALBUM, TokenA, EMPTY),
     CanonicalUrl(EMPTY, PLAYLIST, TokenA, EMPTY),
     CanonicalUrl(EMPTY, ALBUM, TokenB, EMPTY)}

ResourceOf ==
    [kind \in ResourceKinds, input \in ViewInputs |-> Resource(kind, input)]

\* get_track_metadata(track_input), uncached
get_track_metadata(track_input, cfg, outs, total, serial) ==
    SingleBody(ResourceOf[<<"track", track_input>>], 0, 0, outs, total, serial)

\* get_album_metadata(album_input) / get_playlist_metadata(playlist_input),
\* uncached: limit and offset are read from app.config
get_collection_metadata(kind, input, cfg, outs, total, serial) ==
    IF ConfigLimit(cfg, kind) = -1
    THEN PaginatedBody(ResourceOf[<<kind, input>>], outs, total, serial)
    ELSE SingleBody(ResourceOf[<<kind, input>>], ConfigLimit(cfg, kind),
                    ConfigOffset(cfg), outs, total, serial)

\* the view function of a kind, uncached
ViewBody(kind, input, cfg, outs, total, serial) ==
    IF kind = "track"
    THEN get_track_metadata(input, cfg, outs, total, serial)
    ELSE get_collection_metadata(kind, input, cfg, outs, total, serial)

\* the name of the URL variable of each decorated view
UrlVariable(kind) ==
    CASE kind = "track" -> "track_input"
      [] kind = "album" -> "album_input"
      [] OTHER -> "playlist_input"

\* handle_full_url(url): the first of 'track', 'album', 'playlist' that
\* occurs in url decides the view; none gives the usage page
Dispatch(url) ==
    IF Contains(TRACK, url) THEN "track"
    ELSE IF Contains(ALBUM, url) THEN "album"
    ELSE IF Contains(PLAYLIST, url) THEN "playlist"
    ELSE "usage"

StartsWith(str, pre) == OccursAt(pre, str, 1)

\* a routing that lets every method reach the views
RouteAnyMethod(method, path) ==
    IF \E kind \in ResourceKinds :
          StartsWith(path, KindWord(kind) \o SLASH)
              /\ Len(path) > Len(KindWord(kind)) + 1
    THEN LET kind == CHOOSE kind \in ResourceKinds :
                        StartsWith(path, KindWord(kind) \o SLASH)
         IN  [endpoint |-> kind, kw |-> UrlVariable(kind),
              arg |-> SubSeq(path, Len(KindWord(kind)) + 2, Len(path))]
    ELSE IF path # EMPTY
    THEN [endpoint |-> "handle_full_url", kw |-> "", arg |-> path]
    ELSE [endpoint |-> "not_found", kw |-> "", arg |-> path]

\* the routes: /track/<path:track_input>, /album/<path:album_input>,
\* /playlist/<path:playlist_input> and /<path:url>, all for GET alone; a
\* path converter matches a non-empty string. path is the request path
\* without its leading slash
Route(method, path) ==
    IF method # "GET"
    THEN [endpoint |-> "method_not_allowed", kw |-> "", arg |-> path]
    ELSE RouteAnyMethod(method, path)

----------------------------------------------------------------------------
(* The variables a specification leaves alone                              *)

NoResponse == [fail |-> FALSE, error |-> "None", response |-> NoPayload]

\* what a call ended in: the exception raised or the data returned (the
\* chunk yielded), with the request it posted and the Response it got
NoResult ==
    [call |-> "none", exc |-> NoException, data |-> NoPayload,
     event |-> "none", chunk |-> NoChunk, posts |-> 0,
     request |-> NoRequest, response |-> NoResponse]

NormIdle == nIn = EMPTY /\ nOut = <<>>

LibIdle ==
    /\ obj = NoObject
    /\ gen = NoGenerator
    /\ last = NoResult
    /\ calls = 0
    /\ upChanges = 0

ConcIdle == thr = <<>> /\ currsize = 0

----------------------------------------------------------------------------
(* Spec: the server of main.py. One request is handled at a time, from    *)
(* its routing to its response; the clock advances between requests and,   *)
(* by dur, while a view waits for the Transport                            *)

\* the clock advances in steps of half the ttl, MaxTicks times
MaxTicks == 2
ClockStep == ttl \div 2
MaxTime == MaxTicks * ClockStep
\* posts made by all handlers together
MaxPosts == 2

\* the request paths, without the leading slash: /track/<id>, /album/<id>,
\* /playlist/<id>, /track/ (which only the catch-all route matches),
\* /clear and /
Paths ==
    {TRACK \o SLASH \o TokenA,
     ALBUM \o SLASH \o TokenA,
     PLAYLIST \o SLASH \o TokenA,
     TRACK \o SLASH,
     CLEAR,
     EMPTY}

\* the query string: no parameter, or limit=-1
NoQuery == [hasLimit |-> FALSE, limit |-> 0]
LimitAll == [hasLimit |-> TRUE, limit |-> -1]

\* the requests: GET of every path, the album with ?limit=-1, and
\* POST /clear
Requests ==
    {<<"GET", p, IF p = ALBUM \o SLASH \o TokenA THEN LimitAll ELSE NoQuery>> :
        p \in Paths}
        \cup {<<"POST", CLEAR, NoQuery>>}

\* what a post of a handler can end in
SrvOutcomes == {<<"ok", "None">>, <<"fail", "timeout">>, <<"not_mapping", "None">>}

\* Route, tabulated for the requests
RouteOf == [rq \in {<<r[1], r[2]>> : r \in Requests} |-> Route(rq[1], rq[2])]

NoKey == hashkey("", EMPTY)

AllKeys == {hashkey(RouteOf[rq].kw, RouteOf[rq].arg) : rq \in DOMAIN RouteOf}

\* the upstream collection holds SrvTotal items
SrvTotal == 2

\* nothing was stored under the key yet
NoHist == [t0 |-> -1, value |-> NoValue, evicted |-> FALSE]

NoHttp ==
    [method |-> "none", path |-> EMPTY, query |-> NoQuery,
     endpoint |-> "none", view |-> "none", key |-> NoKey, at |-> 0,
     computed |-> FALSE, posts |-> 0, status |-> 0, body |-> NoValue,
     html |-> FALSE, prev |-> NoHist]

SrvIdle ==
    /\ now = 0
    /\ cache = <<>>
    /\ config = NoConfig
    /\ srvPosts = 0
    /\ hist = [k \in AllKeys |-> NoHist]
    /\ http = NoHttp

SrvInit ==
    /\ SrvIdle
    /\ NormIdle
    /\ LibIdle
    /\ ConcIdle
    /\ upTotal = SrvTotal

Tick ==
    /\ now + ClockStep <= MaxTime
    /\ now' = now + ClockStep
    /\ UNCHANGED <<cache, config, srvPosts, hist, http>>
    /\ UNCHANGED <<normVars, libVars, concVars>>

\* a request that runs no view waits for no Transport: it takes no time on
\* the clock and consults no outcome
NoWait(outs, dur) == dur = 0 /\ outs = << <<"ok", "None">> >>

\* a response that is the usage page (text/html) or werkzeug's own page
PageResponse(method, path, query, rt, status) ==
    [NoHttp EXCEPT !.method = method, !.path = path, !.query = query,
                   !.endpoint = rt.endpoint, !.at = now, !.status = status,
                   !.html = TRUE]

\* the response Flask makes of a view's call, before its outcome is known
Answer(method, path, query, rt, kind) ==
    [NoHttp EXCEPT !.method = method, !.path = path, !.query = query,
                   !.endpoint = rt.endpoint, !.view = kind,
                   !.key = hashkey(rt.kw, rt.arg), !.at = now,
                   !.prev = hist[hashkey(rt.kw, rt.arg)]]

\* @cached: the lookup found a valid entry, whose value is returned
CacheHit(answer, look) ==
    /\ cache' = look.cache
    /\ http' = [answer EXCEPT !.status = look.value.status,
                              !.body = look.value]
    /\ UNCHANGED <<now, srvPosts, hist>>

\* @cached: the lookup failed; the view ran, taking dur on the clock, and
\* returned body, which is stored under k
CacheMiss(answer, look, k, body, dur) ==
    /\ srvPosts + body.posts <= MaxPosts
    /\ now + dur <= MaxTime
    /\ now' = now + dur
    /\ srvPosts' = srvPosts + body.posts
    /\ cache' = cache_setitem(look.cache, k, body.value, now + dur)
    /\ hist' = [h \in AllKeys |->
                   IF h = k
                   THEN [t0 |-> now + dur, value |-> body.value,
                         evicted |-> FALSE]
                   ELSE IF h \in Evicted(look.cache, k, now + dur)
                   THEN [hist[h] EXCEPT !.evicted = TRUE]
                   ELSE hist[h]]
    /\ http' = [answer EXCEPT !.status = body.value.status,
                              !.body = body.value,
                              !.computed = TRUE,
                              !.posts = body.posts]

\* the wrapper of @cached(metadata_cache) around a view, and the response
\* Flask makes of what it returns
CachedLookup(answer, look, kind, arg, outs, dur) ==
    IF look.hit
    THEN NoWait(outs, dur) /\ CacheHit(answer, look)
    ELSE CacheMiss(answer, look, answer.key,
                   ViewBody(kind, arg, config, outs, upTotal, srvPosts), dur)

CachedView(method, path, query, rt, kind, outs, dur) ==
    CachedLookup(Answer(method, path, query, rt, kind),
                 cache_getitem(cache, hashkey(rt.kw, rt.arg), now),
                 kind, rt.arg, outs, dur)

\* one request, from the routing to the response
HttpRequest(method, path, query, outs, dur) ==
    LET rt == RouteOf[<<method, path>>] IN
    /\ CASE rt.endpoint = "method_not_allowed" ->
                /\ NoWait(outs, dur)
                /\ http' = PageResponse(method, path, query, rt, 405)
                /\ UNCHANGED <<now, cache, srvPosts, hist>>
         [] rt.endpoint = "not_found" ->
                /\ NoWait(outs, dur)
                /\ http' = PageResponse(method, path, query, rt, 404)
                /\ UNCHANGED <<now, cache, srvPosts, hist>>
         [] rt.endpoint = "handle_full_url" /\ Dispatch(rt.arg) = "usage" ->
                /\ NoWait(outs, dur)
                /\ http' = PageResponse(method, path, query, rt, 400)
                /\ UNCHANGED <<now, cache, srvPosts, hist>>
         [] rt.endpoint = "handle_full_url" /\ Dispatch(rt.arg) # "usage" ->
                CachedView(method, path, query, rt, Dispatch(rt.arg), outs, dur)
         [] OTHER ->
                CachedView(method, path, query, rt, rt.endpoint, outs, dur)
    /\ UNCHANGED config
    /\ UNCHANGED <<normVars, libVars, concVars>>

SrvNext ==
    \/ Tick
    \/ \E rq \in Requests :
       \E out \in SrvOutcomes, dur \in {0, ClockStep} :
          HttpRequest(rq[1], rq[2], rq[3], <<out>>, dur)

Spec == SrvInit /\ [][SrvNext]_vars

----------------------------------------------------------------------------
(* SpecResource: a caller of spotapi/spotify.py constructs one resource,   *)
(* calls get_*_info on it and consumes its paginating generator, against   *)
(* a Transport whose every post can end in each of its outcomes            *)

\* upstream collections of q full pages plus a remainder, q up to MaxPages
MaxPages == 2
\* posts made by direct get_*_info calls
MaxDirect == 1
\* generators made from one object
MaxGens == 2
\* changes of the upstream collection
MaxUpChanges == 1

Remainders(limit) == {0, 1, 20, limit - 1}

TotalsOf(limit) == {q * limit + r : q \in 0..MaxPages, r \in Remainders(limit)}

UpTotals == TotalsOf(UPPER_LIMIT_ALBUM) \cup TotalsOf(UPPER_LIMIT_PLAYLIST)

ConstructorArgs(kind) ==
    {NoneArg, StrArg(EMPTY), StrArg(TokenA), StrArg(KindWord(kind) \o SLASH),
     StrArg(KindWord(kind) \o SLASH \o TokenB)}

LibInit ==
    /\ obj = NoObject
    /\ gen = NoGenerator
    /\ last = NoResult
    /\ calls = 0
    /\ upTotal \in UpTotals
    /\ upChanges = 0

\* PublicTrack(arg), PublicAlbum(arg), PublicPlaylist(arg); the upstream
\* collection is one of the object's kind
Construct(kind, arg) ==
    /\ obj = NoObject
    /\ kind # "track" => upTotal \in TotalsOf(UPPER_LIMIT(kind))
    /\ obj' = PublicResource_init(kind, arg)
    /\ UNCHANGED <<gen, last, calls, upTotal, upChanges>>
    /\ UNCHANGED <<normVars, srvVars, concVars>>

\* obj.get_track_info() / get_album_info(limit, offset=offset) /
\* get_playlist_info(limit, offset=offset)
GetInfo(limit, offset, out) ==
    /\ obj # NoObject
    /\ calls < MaxDirect
    /\ LET req == Request(obj, limit, offset)
           resp == TransportPost(req, out[1], out[2], upTotal, calls + 1)
           r == get_info(obj, resp)
       IN  /\ last' = [NoResult EXCEPT !.call = "get_info", !.exc = r.exc,
                                       !.data = r.data, !.posts = r.posts,
                                       !.request = IF r.posts = 1 THEN req
                                                   ELSE NoRequest,
                                       !.response = IF r.posts = 1 THEN resp
                                                    ELSE NoResponse]
           /\ calls' = calls + r.posts
    /\ UNCHANGED <<obj, gen, upTotal, upChanges>>
    /\ UNCHANGED <<normVars, srvVars, concVars>>

\* obj.paginate_album_tracks() / obj.paginate_playlist(): a new generator;
\* one the caller still held is abandoned
Paginate ==
    /\ obj.kind \in {"album", "playlist"}
    /\ gen.n < MaxGens
    /\ gen' = NewGenerator(gen.n + 1)
    /\ last' = [NoResult EXCEPT !.call = "paginate"]
    /\ UNCHANGED <<obj, calls, upTotal, upChanges>>
    /\ UNCHANGED <<normVars, srvVars, concVars>>

\* next(gen)
Next_(out) ==
    /\ GenLive(gen)
    /\ LET req == GenRequest(obj, gen)
           resp == TransportPost(req, out[1], out[2], upTotal, calls + 1)
           r == GenNext(obj, gen, resp)
       IN  /\ gen' = r.gen
           /\ last' = [NoResult EXCEPT !.call = "next", !.exc = r.exc,
                                       !.event = r.event, !.chunk = r.chunk,
                                       !.posts = r.posts,
                                       !.request = IF r.posts = 1 THEN req
                                                   ELSE NoRequest,
                                       !.response = IF r.posts = 1 THEN resp
                                                    ELSE NoResponse]
           /\ calls' = calls + r.posts
    /\ UNCHANGED <<obj, upTotal, upChanges>>
    /\ UNCHANGED <<normVars, srvVars, concVars>>

\* the upstream collection is emptied, or grows by a page
UpstreamChange ==
    /\ upChanges < MaxUpChanges
    /\ \E t \in {0, upTotal + UPPER_LIMIT_ALBUM} :
          /\ t # upTotal
          /\ upTotal' = t
    /\ upChanges' = upChanges + 1
    /\ gen' = IF GenLive(gen) /\ gen.pc # "created"
              THEN [gen EXCEPT !.upChanged = TRUE] ELSE gen
    /\ UNCHANGED <<obj, last, calls>>
    /\ UNCHANGED <<normVars, srvVars, concVars>>

ResourceNext ==
    \/ \E kind \in ResourceKinds : \E arg \in ConstructorArgs(kind) :
          Construct(kind, arg)
    \/ \E limit \in {DEFAULT_LIMIT, UPPER_LIMIT(obj.kind)} :
       \E offset \in {0, UPPER_LIMIT(obj.kind)} :
       \E out \in PostOutcomes :
          GetInfo(limit, offset, out)
    \/ Paginate
    \/ \E out \in PostOutcomes : Next_(out)
    \/ UpstreamChange

ResourceInit == NormIdle /\ LibInit /\ SrvIdle /\ ConcIdle

SpecResource == ResourceInit /\ [][ResourceNext]_vars

\* the caller consumes its generator to the end: a `for` loop over it
\* keeps calling next() until the generator returns or raises
SpecResourceConsumed ==
    SpecResource /\ WF_vars(\E out \in PostOutcomes : Next_(out))

----------------------------------------------------------------------------
(* SpecNormalize: extract_spotify_id applied, and applied again            *)

MaxApply == 2

NormInit ==
    /\ nIn \in NormInputs
    /\ nOut = <<>>
    /\ LibIdle /\ upTotal = 0
    /\ SrvIdle
    /\ ConcIdle

Normalize ==
    /\ Len(nOut) < MaxApply
    /\ nOut' = Append(nOut,
                      extract_spotify_id(IF nOut = <<>> THEN nIn
                                         ELSE nOut[Len(nOut)]))
    /\ UNCHANGED nIn
    /\ UNCHANGED <<libVars, srvVars, concVars>>

NormNext == Normalize

SpecNormalize == NormInit /\ [][NormNext]_vars

----------------------------------------------------------------------------
(* SpecConcurrent: the threaded server (app.run serves every request in a  *)
(* thread of its own). Each thread runs the wrapper of                      *)
(* @cached(metadata_cache), which is given no lock:                         *)
(*     k = key of the call's arguments                                      *)
(*     try: return cache[k]                                                 *)
(*     except KeyError: pass                                                *)
(*     v = func of the call's arguments                                     *)
(*     try: cache[k] = v                                                    *)
(*     except ValueError: pass                                              *)
(*     return v                                                             *)
(* and a thread may be switched out between any two of its steps, also      *)
(* inside TTLCache.__setitem__                                              *)

\* the worker threads, and the calls each of them serves
MaxThreads == 2
MaxCalls == 2
Threads == 1..MaxThreads

\* GET /track/<id> and GET /album/<id> of one ID
ConcRequests ==
    {<<"GET", TRACK \o SLASH \o TokenA>>, <<"GET", ALBUM \o SLASH \o TokenA>>}

\* what the post of a view can end in
ConcOutcomes == {<<"ok", "None">>, <<"fail", "timeout">>}

\* a thread between two requests
NoThread ==
    [pc |-> "idle", view |-> "none", arg |-> EMPTY, key |-> NoKey,
     value |-> NoValue, hit |-> FALSE, posts |-> 0, diffsize |-> 0,
     served |-> 0]

\* the threads that looked k up, missed, and have not stored yet
InFlight(k) ==
    {u \in DOMAIN thr : thr[u].key = k /\ thr[u].pc \in {"call", "store", "write"}}

\* a wrapper that lets one thread at a time compute a key and makes the
\* others wait for it
AfterLookupSingleFlight(self, hit) ==
    IF hit THEN "return"
    ELSE IF InFlight(self.key) # {} THEN "wait"
    ELSE "call"

\* the wrapper after `try: return cache[k]`: on KeyError it goes on to call
\* the view, whatever the other threads are doing
AfterLookup(self, hit) == IF hit THEN "return" ELSE "call"

\* TTLCache.__setitem__ up to the decision of Cache.__setitem__, at time t
\* with Cache.__currsize = n: expire(t); when k is not in the cache,
\* popitem() while currsize + 1 > maxsize; diffsize is 1 for a key not in
\* the cache and 0 for one that is
setitem_check(c, n, k, t) ==
    LET live == expire(c, t)
        n1 == n - (Len(c) - Len(live))
        drop == IF IndexOf(live, k) = 0
                THEN Max({0, Min({n1 + 1 - maxsize, Len(live)})})
                ELSE 0
    IN  [cache |-> SubSeq(live, drop + 1, Len(live)),
         currsize |-> n1 - drop,
         diffsize |-> IF IndexOf(live, k) = 0 THEN 1 ELSE 0]

\* the rest of it: self.__data[key] = value; self.__currsize += diffsize;
\* the link is moved to the end with expires = t + ttl
setitem_write(c, n, k, v, t, diffsize) ==
    [cache |-> Append(Without(c, k), [key |-> k, value |-> v, expires |-> t + ttl]),
     currsize |-> n + diffsize]

ConcInit ==
    /\ NormIdle
    /\ LibIdle
    /\ SrvIdle
    /\ upTotal = SrvTotal
    /\ thr = [t \in Threads |-> NoThread]
    /\ currsize = 0

\* what no step of a thread changes
ConcFrame == UNCHANGED <<normVars, libVars, now, config, hist, http>>

\* Flask hands a request to thread t, which enters the wrapper
Accept(t, rq) ==
    /\ thr[t].pc = "idle"
    /\ thr[t].served < MaxCalls
    /\ thr' = [thr EXCEPT ![t] =
                  [NoThread EXCEPT !.pc = "lookup",
                                   !.view = RouteOf[rq].endpoint,
                                   !.arg = RouteOf[rq].arg,
                                   !.key = hashkey(RouteOf[rq].kw, RouteOf[rq].arg),
                                   !.served = thr[t].served + 1]]
    /\ UNCHANGED <<cache, currsize, srvPosts>>
    /\ ConcFrame

\* try: return cache[k]
Lookup(t) ==
    /\ thr[t].pc = "lookup"
    /\ cache' = cache_getitem(cache, thr[t].key, now).cache
    /\ thr' = [thr EXCEPT ![t].pc =
                             AfterLookup(thr[t],
                                         cache_getitem(cache, thr[t].key, now).hit),
                          ![t].hit = cache_getitem(cache, thr[t].key, now).hit,
                          ![t].value = cache_getitem(cache, thr[t].key, now).value]
    /\ UNCHANGED <<currsize, srvPosts>>
    /\ ConcFrame

\* the value returned by the wrapper goes out as the response
Return(t) ==
    /\ thr[t].pc = "return"
    /\ thr' = [thr EXCEPT ![t].pc = "idle"]
    /\ UNCHANGED <<cache, currsize, srvPosts>>
    /\ ConcFrame

\* v = func(...): the view runs, with its post
Call(t, body) ==
    /\ thr[t].pc = "call"
    /\ thr' = [thr EXCEPT ![t].pc = "store", ![t].value = body.value,
                          ![t].posts = body.posts]
    /\ srvPosts' = srvPosts + body.posts
    /\ UNCHANGED <<cache, currsize>>
    /\ ConcFrame

\* cache[k] = v, its first part
StoreCheck(t, chk) ==
    /\ thr[t].pc = "store"
    /\ cache' = chk.cache
    /\ currsize' = chk.currsize
    /\ thr' = [thr EXCEPT ![t].pc = "write", ![t].diffsize = chk.diffsize]
    /\ UNCHANGED srvPosts
    /\ ConcFrame

\* cache[k] = v, its second part; then return v
StoreWrite(t, w) ==
    /\ thr[t].pc = "write"
    /\ cache' = w.cache
    /\ currsize' = w.currsize
    /\ thr' = [thr EXCEPT ![t].pc = "return"]
    /\ UNCHANGED srvPosts
    /\ ConcFrame

ConcNext ==
    \/ \E t \in Threads : \E rq \in ConcRequests : Accept(t, rq)
    \/ \E t \in Threads : Lookup(t)
    \/ \E t \in Threads : Return(t)
    \/ \E t \in Threads : \E out \in ConcOutcomes :
          Call(t, ViewBody(thr[t].view, thr[t].arg, config, <<out>>, upTotal,
                           srvPosts))
    \/ \E t \in Threads :
          StoreCheck(t, setitem_check(cache, currsize, thr[t].key, now))
    \/ \E t \in Threads :
          StoreWrite(t, setitem_write(cache, currsize, thr[t].key, thr[t].value,
                                      now, thr[t].diffsize))

SpecConcurrent == ConcInit /\ [][ConcNext]_vars

----------------------------------------------------------------------------
(* SpecEvict: requests for more tracks than metadata_cache holds, one      *)
(* request a second, each handled to its end before the next               *)

\* the requests ask for maxsize + MaxExtra different IDs; the first MaxHot
\* of them are asked for again, MaxHits times in all, once the cache is
\* about to be full
MaxExtra == 2
MaxHot == 2
MaxHits == 2
MaxIds == maxsize + MaxExtra

\* the i-th ID, as three digits
DigitChars == <<"0", "1", "2", "3", "4", "5", "6", "7", "8", "9">>
IdOf(i) ==
    <<DigitChars[((i \div 100) % 10) + 1], DigitChars[((i \div 10) % 10) + 1],
      DigitChars[(i % 10) + 1]>>

\* the key of GET /track/<i-th ID>
KeyOf(i) == hashkey(UrlVariable("track"), IdOf(i))

\* the keys of the entries of the cache
KeysIn(c) == {c[i].key : i \in 1..Len(c)}

EvictInit ==
    /\ NormIdle
    /\ LibIdle
    /\ ConcIdle
    /\ upTotal = SrvTotal
    /\ now = 0
    /\ cache = <<>>
    /\ config = NoConfig
    /\ srvPosts = 0
    /\ hist = <<>>
    /\ http = NoHttp

\* GET /track/<i-th ID>, a second after the last request: the wrapper of
\* @cached around get_track_metadata. hist records when each key was
\* stored (t0) and when the wrapper last looked it up or stored it (used)
TrackRequest(i, look, body) ==
    /\ now' = now + 1
    /\ IF look.hit
       THEN /\ cache' = look.cache
            /\ hist' = [k \in DOMAIN hist |->
                           IF k = KeyOf(i) THEN [hist[k] EXCEPT !.used = now + 1]
                           ELSE hist[k]]
            /\ UNCHANGED srvPosts
       ELSE /\ cache' = cache_setitem(look.cache, KeyOf(i), body.value, now + 1)
            /\ hist' = [k \in DOMAIN hist \cup {KeyOf(i)} |->
                           IF k = KeyOf(i) THEN [t0 |-> now + 1, used |-> now + 1]
                           ELSE hist[k]]
            /\ srvPosts' = srvPosts + body.posts
    /\ http' = [NoHttp EXCEPT !.method = "GET",
                              !.path = TRACK \o SLASH \o IdOf(i),
                              !.endpoint = "track", !.view = "track",
                              !.key = KeyOf(i), !.at = now + 1,
                              !.computed = ~look.hit,
                              !.posts = IF look.hit THEN 0 ELSE body.posts,
                              !.status = IF look.hit THEN look.value.status
                                         ELSE body.value.status,
                              !.body = IF look.hit THEN look.value ELSE body.value]
    /\ UNCHANGED <<normVars, libVars, concVars, config>>

\* a request for an ID not asked for before
NewRequest ==
    /\ Cardinality(DOMAIN hist) < MaxIds
    /\ TrackRequest(Cardinality(DOMAIN hist) + 1,
                    cache_getitem(cache, KeyOf(Cardinality(DOMAIN hist) + 1), now + 1),
                    SingleBody(Resource("track", IdOf(Cardinality(DOMAIN hist) + 1)),
                               0, 0, << <<"ok", "None">> >>, upTotal, srvPosts))

\* a request for one of the first IDs again
RepeatRequest(i) ==
    /\ KeyOf(i) \in DOMAIN hist
    /\ Len(cache) >= maxsize - 1
    /\ now - srvPosts < MaxHits
    /\ TrackRequest(i, cache_getitem(cache, KeyOf(i), now + 1),
                    SingleBody(Resource("track", IdOf(i)), 0, 0,
                               << <<"ok", "None">> >>, upTotal, srvPosts))

EvictNext ==
    \/ NewRequest
    \/ \E i \in 1..MaxHot : RepeatRequest(i)

SpecEvict == EvictInit /\ [][EvictNext]_vars

----------------------------------------------------------------------------
(* SpecPaginate: get_album_metadata and get_playlist_metadata called       *)
(* through their routes while app.config holds what the embedding          *)
(* application put there: nothing, or limit = -1. Each request is handled  *)
(* to its end before the next; the clock stands still                      *)

\* the outcomes the posts of one handler call are drawn from: the i-th
\* post ends in the i-th outcome, the posts after the last as the last; at
\* most MaxOuts outcomes are drawn
MaxOuts == 4
\* the views run MaxRuns times in all; the requests after that are served
\* from the cache
MaxRuns == 1

\* app.config['limit'] = -1
ConfigAll == [hasLimit |-> TRUE, limit |-> -1, hasOffset |-> FALSE, offset |-> 0]

AppConfigs == {NoConfig, ConfigAll}

\* sizes of the upstream collection: none, one page of either kind, and
\* several pages
PagedTotals == {0, 1, UPPER_LIMIT_ALBUM, 120, 400}

PagedKinds == {"album", "playlist"}

\* the collection as a post sees it after a change: ChangedTotal items
ChangedTotal == 70

\* what a post of a handler can end in: as in Spec, or successfully over
\* the changed collection
PagedOutcomes == SrvOutcomes \cup {<<"ok", "None", ChangedTotal>>}

\* the outcomes of the posts of one call: a view posts no more once a post
\* failed, so only the last outcome drawn may be a failure
OutcomeRuns ==
    UNION {{Append(pre, l) :
                pre \in [1..(n - 1) -> {o \in PagedOutcomes : o[1] = "ok"}],
                l \in PagedOutcomes} : n \in 1..MaxOuts}

PagedPath(kind) == KindWord(kind) \o SLASH \o TokenA

PaginateInit ==
    /\ NormIdle
    /\ LibIdle
    /\ ConcIdle
    /\ upTotal \in PagedTotals
    /\ now = 0
    /\ cache = <<>>
    /\ config \in AppConfigs
    /\ srvPosts = 0
    /\ hist = <<>>
    /\ http = NoHttp

\* the wrapper of @cached around the view of `kind`, rt being the route of
\* the request, look the lookup of its key and body what the view returns
\* when it runs. hist records the outcomes the posts of the view were
\* drawn from
PagedCall(kind, rt, look, body, outs) ==
    /\ IF look.hit
       THEN /\ outs = << <<"ok", "None">> >>
            /\ cache' = look.cache
            /\ hist' = <<>>
            /\ UNCHANGED srvPosts
       ELSE /\ Len(cache) < MaxRuns
            /\ cache' = cache_setitem(look.cache, hashkey(rt.kw, rt.arg),
                                      body.value, now)
            /\ hist' = outs
            /\ srvPosts' = srvPosts + body.posts
    /\ http' = [NoHttp EXCEPT !.method = "GET",
                              !.path = PagedPath(kind),
                              !.endpoint = rt.endpoint, !.view = kind,
                              !.key = hashkey(rt.kw, rt.arg), !.at = now,
                              !.computed = ~look.hit,
                              !.posts = IF look.hit THEN 0 ELSE body.posts,
                              !.status = IF look.hit THEN look.value.status
                                         ELSE body.value.status,
                              !.body = IF look.hit THEN look.value ELSE body.value]
    /\ UNCHANGED <<now, config, normVars, libVars, concVars>>

\* GET /album/<id> or GET /playlist/<id>
PagedRequest(kind, rt, outs) ==
    PagedCall(kind, rt, cache_getitem(cache, hashkey(rt.kw, rt.arg), now),
              ViewBody(kind, rt.arg, config, outs, upTotal, srvPosts), outs)

GetAlbum(outs) ==
    PagedRequest("album", Route("GET", PagedPath("album")), outs)

GetPlaylist(outs) ==
    PagedRequest("playlist", Route("GET", PagedPath("playlist")), outs)

PaginateNext ==
    \/ \E outs \in OutcomeRuns : GetAlbum(outs)
    \/ \E outs \in OutcomeRuns : GetPlaylist(outs)

SpecPaginate == PaginateInit /\ [][PaginateNext]_vars

----------------------------------------------------------------------------
(* Claims about the server (Spec)                                          *)

\* the ttl as the comment of metadata_cache states it: one hour
OneHour == 60 * 60

\* C1: a call of a cached view for a key whose value was stored less than
\* the ttl ago (and not evicted since) does not run the view and makes no
\* post: it returns the stored value; a call at or after the ttl since the
\* store, and a call for a key never stored, runs the view again.
C1_CacheHitSemantics ==
    http.view # "none" =>
        /\ (http.prev.t0 >= 0 /\ ~http.prev.evicted
                /\ http.at < http.prev.t0 + OneHour)
              => /\ ~http.computed
                 /\ http.posts = 0
                 /\ http.body = http.prev.value
        /\ (http.prev.t0 >= 0 /\ http.at >= http.prev.t0 + OneHour)
              => http.computed
        /\ http.prev.t0 < 0 => http.computed
        /\ (http.computed /\ http.body.excClass # "ValueError") => http.posts = 1

\* the second call for /track/<id>, half the ttl after the first, is
\* answered with the stored value and without a post
C1_Witness ==
    /\ http.view = "track"
    /\ http.path = TRACK \o SLASH \o TokenA
    /\ http.prev.t0 = 0
    /\ http.at = ClockStep
    /\ ~http.computed
    /\ http.status = 200
    /\ http.body.data.serial = 1
    /\ srvPosts = 1

\* C2: the cache holds no entry for a key whose fetch failed: after a view
\* answered with an error, no entry is stored under its key.
C2_NoEntryForFailedFetch ==
    /\ \A i \in 1..Len(cache) :
          cache[i].value.excClass \notin {"TrackError", "AlbumError", "PlaylistError"}
    /\ (http.view # "none" /\ http.computed /\ http.posts = 1
            /\ http.body.excClass # "none")
          => IndexOf(cache, http.key) = 0

\* C3 as stated: after POST /clear the cache holds no entry.
C3_ClearEmptiesCache ==
    (http.method = "POST" /\ http.path = CLEAR) =>
        /\ http.status = 200
        /\ cache = <<>>

\* C3 as amended: no clear operation is offered. POST /clear is answered
\* 405 and GET /clear with the usage page and 400, and neither changes the
\* cache.
C3_NoClearOperation ==
    [][http'.path = CLEAR =>
          /\ cache' = cache
          /\ http'.html
          /\ http'.status = IF http'.method = "POST" THEN 405 ELSE 400]_vars

\* POST /clear was answered 405 while the cache held an entry
C3_Witness ==
    /\ http.method = "POST"
    /\ http.path = CLEAR
    /\ http.status = 405
    /\ Len(cache) >= 1

\* C8 as stated: an error of a view is answered 400 for an unset ID
\* (ValueError), 404 for a resource error and 500 for any other.
C8_StatusByErrorKind ==
    (http.view # "none" /\ http.body.excClass # "none") =>
        /\ http.body.error # "none"
        /\ http.status =
              IF http.body.excClass = "ValueError" THEN 400
              ELSE IF http.body.excClass \in {"TrackError", "AlbumError",
                                              "PlaylistError"}
              THEN 404 ELSE 500

\* C8 as amended: every exception a view raises is answered with status
\* 404 and a JSON body whose error field is the exception's message,
\* whatever its kind; a response without an exception has status 200.
C8_EveryErrorIs404 ==
    http.view # "none" =>
        /\ http.body.excClass # "none" =>
              /\ http.status = 404
              /\ ~http.html
              /\ http.body.error =
                    CASE http.body.excClass = "ValueError" -> "Track ID not set"
                      [] http.body.data # NoPayload -> "none"
                      [] http.body.error = "Invalid JSON" -> "Invalid JSON"
                      [] http.view = "track" -> "Could not get track info"
                      [] http.view = "album" -> "Could not get album info"
                      [] OTHER -> "Could not get playlist info"
        /\ http.body.excClass = "none" => http.status = 200
        /\ http.status \in {200, 404}

\* GET /track/ reached get_track_metadata, whose ValueError "Track ID not
\* set" was answered 404
C8_Witness ==
    /\ http.path = TRACK \o SLASH
    /\ http.view = "track"
    /\ http.computed
    /\ http.body.excClass = "ValueError"
    /\ http.body.error = "Track ID not set"
    /\ http.status = 404

\* C9: a request of the album or playlist view carrying limit=-1 is
\* answered by the pagination branch, one not carrying it by a single
\* fetch.
C9_LimitParamSelectsMode ==
    (http.view \in {"album", "playlist"} /\ http.computed) =>
        (http.query = LimitAll <=> http.body.mode = "paginate")

\* C14: a hit leaves the entry as it was stored: in every state each entry
\* of the cache holds the value last stored under its key and expires ttl
\* after that store, whatever lookups came in between; and a response
\* served from the cache is that value, served before the store's time
\* plus ttl.
C14_HitLeavesEntry ==
    /\ \A i \in 1..Len(cache) :
          /\ cache[i].expires = hist[cache[i].key].t0 + ttl
          /\ cache[i].value = hist[cache[i].key].value
    /\ (http.view # "none" /\ ~http.computed) =>
          /\ http.prev.t0 >= 0
          /\ http.at < http.prev.t0 + ttl
          /\ http.body = http.prev.value
          /\ http.posts = 0

\* the playlist stored at 0 was served from the cache half the ttl later,
\* and its entry still expires at ttl
C14_Witness ==
    /\ http.view = "playlist"
    /\ ~http.computed
    /\ http.prev.t0 = 0
    /\ http.at = ClockStep
    /\ IndexOf(cache, http.key) > 0
    /\ cache[Len(cache)].key = http.key
    /\ cache[Len(cache)].expires = ttl
    /\ cache[Len(cache)].value = http.body

----------------------------------------------------------------------------
(* Claims about the resources and their generators (SpecResource)          *)

\* the offsets a complete pagination of `total` items in pages of `limit`
\* fetches: 0 and every further multiple of limit below total
ExpectedOffsets(total, limit) ==
    LET n == IF total = 0 THEN 1 ELSE (total + limit - 1) \div limit
    IN  [i \in 1..n |-> (i - 1) * limit]

\* the kind's page size as the documentation states it
PageSize == [album |-> 50, playlist |-> 343]

\* C4: a generator whose fetches all succeeded posts requests at offsets
\* 0, L, 2L, ... in this order, each with limit L = UPPER_LIMIT, and
\* yields one chunk per request; when it returns it has fetched exactly
\* the multiples of L below the totalCount of its first chunk (offset 0
\* alone when that is 0); over an unchanged collection its chunks hold
\* L items each and the last one the remainder.
C4_PaginationComplete ==
    (gen.pc \in {"first", "loop", "done"}) =>
        LET L == PageSize[obj.kind]
            T == gen.chunks[1].totalCount
            want == ExpectedOffsets(T, L)
        IN  /\ Len(gen.posted) = Len(gen.chunks)
            /\ Len(gen.posted) <= Len(want)
            /\ \A i \in 1..Len(gen.posted) :
                  /\ gen.posted[i].offset = want[i]
                  /\ gen.posted[i].limit = L
            /\ gen.pc = "done" => Len(gen.posted) = Len(want)
            /\ gen.pc # "done" => gen.offset = want[Len(gen.posted)]
            /\ ~gen.upChanged =>
                  \A i \in 1..Len(gen.chunks) :
                      Len(gen.chunks[i].items) =
                          IF want[i] + L <= T THEN L ELSE T - want[i]

\* an album of 120 tracks has been paginated to the end: offsets 0, 50,
\* 100 and chunks of 50, 50 and 20 items
C4_Witness ==
    /\ obj.kind = "album"
    /\ gen.pc = "done"
    /\ gen.total_count = 120
    /\ [i \in 1..Len(gen.posted) |-> gen.posted[i].offset] = <<0, 50, 100>>
    /\ [i \in 1..Len(gen.chunks) |-> Len(gen.chunks[i].items)] = <<50, 50, 20>>

\* C5: a generator whose first fetch reported totalCount <= UPPER_LIMIT
\* (343 of 343, or 0) returns after its one chunk without a second
\* request; one whose first fetch reported more makes a second request
\* before it returns.
C5_PaginationBoundary ==
    LET L == PageSize[obj.kind] IN
    /\ (gen.pc \in {"first", "loop", "done", "raised"} /\ Len(gen.chunks) >= 1
            /\ gen.chunks[1].totalCount <= L)
          => /\ Len(gen.posted) = 1
             /\ Len(gen.chunks) = 1
             /\ gen.pc \in {"first", "done"}
    /\ (gen.pc = "done" /\ gen.chunks[1].totalCount > L)
          => Len(gen.posted) >= 2

\* a playlist of exactly 343 items: one chunk, one request, returned
C5_Witness ==
    /\ obj.kind = "playlist"
    /\ gen.pc = "done"
    /\ gen.total_count = 343
    /\ Len(gen.posted) = 1
    /\ Len(gen.chunks) = 1
    /\ Len(gen.chunks[1].items) = 343

\* the error class of a kind, as the documentation names it
KindError == [track |-> "TrackError", album |-> "AlbumError",
              playlist |-> "PlaylistError"]

\* C15: a resumption of the generator whose fetch fails (the transport
\* fails, or the payload is no mapping) raises the error of the resource's
\* own kind, with the transport's error string, and yields nothing; the
\* generator is finished by it, the failed request being the last it
\* posted. The chunks yielded before are those of the offsets 0, L, ...
\* fetched before, in order.
C15_PaginatorFailure ==
    /\ (last.call = "next" /\ last.posts = 1
            /\ (last.response.fail \/ ~last.response.response.isMapping))
          => /\ last.event = "raise"
             /\ last.chunk = NoChunk
             /\ last.exc.class = KindError[obj.kind]
             /\ last.response.fail => last.exc.error = last.response.error
             /\ gen.pc = "raised"
             /\ gen.posted[Len(gen.posted)] = last.request
    /\ (last.call = "next" /\ last.event = "raise") => gen.pc = "raised"
    /\ (gen.pc = "raised" /\ Len(gen.posted) >= 1)
          => /\ Len(gen.chunks) = Len(gen.posted) - 1
             /\ \A i \in 1..Len(gen.posted) :
                   gen.posted[i].offset = (i - 1) * PageSize[obj.kind]
             /\ upChanges = 0 =>
                   \A i \in 1..Len(gen.chunks) :
                       gen.chunks[i].items =
                           Slice((i - 1) * PageSize[obj.kind],
                                 PageSize[obj.kind], upTotal)

\* the second fetch of an album's generator, at offset 50, timed out: the
\* generator raised AlbumError after its one chunk and is finished
C15_Witness ==
    /\ obj.kind = "album"
    /\ gen.pc = "raised"
    /\ last.call = "next"
    /\ last.event = "raise"
    /\ last.exc.class = "AlbumError"
    /\ last.exc.error = "timeout"
    /\ last.request.offset = 50
    /\ Len(gen.posted) = 2
    /\ Len(gen.chunks) = 1
    /\ Len(gen.chunks[1].items) = 50

\* C18 as stated: a fetch returns data that is a mapping or fails, and
\* every failure carries an error detail: the transport's error string
\* when the transport failed, "Invalid JSON" when the payload is no mapping.
C18_EveryFailureHasDetail ==
    (last.call = "get_info" /\ last.posts = 1) =>
        IF last.response.fail
        THEN /\ last.exc.class = KindError[obj.kind]
             /\ last.exc.error = last.response.error
        ELSE IF ~last.response.response.isMapping
        THEN /\ last.exc.class = KindError[obj.kind]
             /\ last.exc.error = "Invalid JSON"
        ELSE /\ last.exc = NoException
             /\ last.data.isMapping

\* C18, amended: a fetch returns the payload, which is a mapping, or
\* raises the error of its kind. The error of a failed transport has the
\* message "Could not get <kind> info" and the transport's error string
\* as its error detail; the error of a payload that is no mapping has the
\* message "Invalid JSON" and no error detail (error is None). The same
\* errors leave a generator whose fetch ends so.
C18_ResponseClassification ==
    /\ (last.call = "get_info" /\ last.posts = 1) =>
          IF last.response.fail
          THEN /\ last.exc = ParentException(KindError[obj.kind],
                                             FailMessage(obj.kind),
                                             last.response.error)
               /\ last.exc.error \in ErrorStrings
               /\ last.data = NoPayload
          ELSE IF ~last.response.response.isMapping
          THEN /\ last.exc = ParentException(KindError[obj.kind],
                                             "Invalid JSON", "None")
               /\ last.data = NoPayload
          ELSE /\ last.exc = NoException
               /\ last.data = last.response.response
               /\ last.data.isMapping
    /\ (last.call = "next" /\ last.posts = 1 /\ ~last.response.fail
            /\ ~last.response.response.isMapping) =>
          last.exc = ParentException(KindError[obj.kind], "Invalid JSON", "None")

\* get_track_info got a payload that is no mapping: TrackError("Invalid
\* JSON"), whose error is None
C18_Witness ==
    /\ obj.kind = "track"
    /\ last.call = "get_info"
    /\ last.posts = 1
    /\ ~last.response.fail
    /\ ~last.response.response.isMapping
    /\ last.exc = [class |-> "TrackError", message |-> "Invalid JSON",
                   error |-> "None"]

\* where a generator's frame can go from where it stands: from its
\* creation to its first fetch, from there to the loop or to its end
GenSuccessors(pc) ==
    CASE pc = "created" -> {"first", "raised"}
      [] pc = "first" -> {"loop", "done", "raised"}
      [] pc = "loop" -> {"loop", "done", "raised"}
      [] OTHER -> {}

\* C16: a generator that is consumed comes to its end, after no more
\* fetches than the totalCount of its first chunk allows, whatever the
\* later responses report: its frame goes created -> first -> (done |
\* loop -> ... -> done), or ends by an exception. Every call of
\* paginate_*() gives a generator that has fetched and yielded nothing and
\* whose first fetch is at offset 0, whatever the generators before it did.
C16_TerminatesAndFresh ==
    /\ [](/\ gen.pc = "created" =>
                /\ gen.posted = <<>> /\ gen.chunks = <<>>
                /\ gen.offset = 0 /\ gen.total_count = 0
          /\ Len(gen.posted) >= 1 => gen.posted[1].offset = 0
          /\ Len(gen.chunks) >= 1 =>
                /\ gen.total_count = gen.chunks[1].totalCount
                /\ Len(gen.posted) <=
                      Len(ExpectedOffsets(gen.total_count, PageSize[obj.kind])))
    /\ [][gen'.n = gen.n => gen'.pc \in GenSuccessors(gen.pc) \cup {gen.pc}]_vars
    /\ [][gen'.n # gen.n => gen' = [NoGenerator EXCEPT !.pc = "created",
                                                     !.n = gen.n + 1]]_vars
    /\ (GenLive(gen) ~> ~GenLive(gen))

\* the second generator of an album returned after all its fetches, from
\* offset 0 on, though the collection grew after its first fetch
C16_Witness ==
    /\ obj.kind = "album"
    /\ gen.n = 2
    /\ gen.pc = "done"
    /\ gen.upChanged
    /\ upTotal > gen.total_count
    /\ gen.total_count > PageSize[obj.kind]
    /\ gen.posted[1].offset = 0
    /\ Len(gen.posted) = Len(ExpectedOffsets(gen.total_count, PageSize[obj.kind]))
    /\ calls > Len(gen.posted)

\* C6: a call of get_*_info (directly or by the generator) on a resource
\* constructed without an ID (None or the empty string), or with an ID
\* that is empty, raises ValueError "<Kind> ID not set" and no post has
\* been made.
C6_UnsetIdValidationError ==
    (last.call \in {"get_info", "next"} /\ (~obj.assigned \/ obj.id = EMPTY)) =>
        /\ last.exc.class = "ValueError"
        /\ last.exc.message \in {"Track ID not set", "Album ID not set",
                                 "Playlist ID not set"}
        /\ last.posts = 0
        /\ calls = 0

\* C7: when the post of a call fails with error string D, the call raises
\* the error of the resource's own kind (TrackError for a track,
\* AlbumError for an album, PlaylistError for a playlist) carrying D as
\* its error, and returns or yields no data.
C7_TransportFailureKind ==
    (last.posts = 1 /\ last.response.fail) =>
        /\ last.exc.class =
              [track |-> "TrackError", album |-> "AlbumError",
               playlist |-> "PlaylistError"][obj.kind]
        /\ last.exc.error = last.response.error
        /\ last.exc.error \in ErrorStrings
        /\ last.data = NoPayload
        /\ last.chunk = NoChunk
        /\ last.event # "yield"

\* get_album_info failed on a timeout of the Transport
C7_Witness ==
    /\ obj.kind = "album"
    /\ last.call = "get_info"
    /\ last.posts = 1
    /\ last.response.fail
    /\ last.response.error = "timeout"
    /\ last.exc = [class |-> "AlbumError",
                   message |-> "Could not get album info", error |-> "timeout"]

----------------------------------------------------------------------------
(* C10: the bare token and every canonical URL of it                      *)
(* (<prefix>spotify.com/<kind>/<token><suffix>) normalize to that same    *)
(* token; an input no pattern matches is returned unchanged; and a second *)
(* application changes nothing.                                            *)
C10_NormalizeSameId ==
    Len(nOut) >= 1 =>
        /\ \A tok \in Tokens :
              (nIn = tok \/ \E pre \in Prefixes, kind \in Kinds, suf \in Suffixes :
                                nIn = CanonicalUrl(pre, kind, tok, suf))
                  => nOut[1] = tok
        /\ nIn \in (RegionalUrls \cup RelativeInputs \cup TruncatedUrls)
              => nOut[1] = nIn
        /\ Len(nOut) >= 2 => nOut[2] = nOut[1]

\* a canonical URL with a suffix has been normalized, twice
C10_Witness ==
    /\ nIn = CanonicalUrl(HostPrefix, ALBUM, TokenB, QuerySuffix)
    /\ Len(nOut) = 2
    /\ nOut[1] = TokenB

----------------------------------------------------------------------------
(* Claims about the threaded server (SpecConcurrent)                       *)

\* C11: under every interleaving of the threads' calls the store keeps its
\* invariants: one entry per key, no more than maxsize entries, and a size
\* count (Cache.__currsize) equal to the number of entries, every insert
\* having acted on the store as one step.
C11_StoreInvariants ==
    /\ currsize = Len(cache)
    /\ Len(cache) <= maxsize
    /\ \A i, j \in 1..Len(cache) : cache[i].key = cache[j].key => i = j

\* C12: a lookup that finds no valid entry goes on to call the view,
\* whatever the other threads are doing with the same key, and every call
\* of the view makes its own post: no thread waits for, or shares, the
\* fetch of another.
C12_EveryMissFetches ==
    [][\A t \in Threads :
          /\ (thr[t].pc = "lookup" /\ thr'[t] # thr[t]) =>
                thr'[t].pc = IF cache_getitem(cache, thr[t].key, now).hit
                             THEN "return" ELSE "call"
          /\ (thr[t].pc = "call" /\ thr'[t] # thr[t]) =>
                /\ thr'[t].pc = "store"
                /\ thr'[t].posts = 1
                /\ srvPosts' = srvPosts + 1]_vars

\* the stampede: two threads missed the same key and each has made its own
\* post for it, before either stored
C12_Witness ==
    \E t, u \in Threads :
        /\ t # u
        /\ thr[t].key = thr[u].key
        /\ thr[t].pc = "store" /\ thr[u].pc = "store"
        /\ thr[t].posts = 1 /\ thr[u].posts = 1
        /\ ~thr[t].hit /\ ~thr[u].hit
        /\ srvPosts = 2
        /\ cache = <<>>

----------------------------------------------------------------------------
(* Claims about the full cache (SpecEvict)                                 *)

\* a step that stores a key the full cache did not hold
StoresIntoFull ==
    /\ Len(cache) = maxsize
    /\ KeysIn(cache') \ KeysIn(cache) # {}

\* C13 as stated: the cache never holds more than maxsize entries, and a
\* store into the full cache evicts the oldest entry, the one stored first.
C13_EvictsOldest ==
    [][/\ Len(cache') <= maxsize
       /\ StoresIntoFull =>
             \A g \in KeysIn(cache) \ KeysIn(cache') :
                \A e \in KeysIn(cache) : hist[g].t0 <= hist[e].t0]_vars

\* C13 as amended: the cache never holds more than maxsize entries; a store
\* into the full cache evicts exactly one entry, the least recently used
\* one (a hit counts as a use), and keeps the newly computed entry.
C13_EvictsLeastRecentlyUsed ==
    [][/\ Len(cache') <= maxsize
       /\ StoresIntoFull =>
             /\ Cardinality(KeysIn(cache) \ KeysIn(cache')) = 1
             /\ \A g \in KeysIn(cache) \ KeysIn(cache') :
                   \A e \in KeysIn(cache) : hist[g].used <= hist[e].used
             /\ Len(cache') = maxsize
             /\ cache'[Len(cache')].key = http'.key
             /\ cache'[Len(cache')].value = http'.body
             /\ http'.computed]_vars

\* the cache is full, still holds the first key stored, which was hit in
\* between, and has evicted the second
C13_Witness ==
    /\ Len(cache) = maxsize
    /\ KeyOf(1) \in KeysIn(cache)
    /\ KeyOf(2) \in DOMAIN hist
    /\ KeyOf(2) \notin KeysIn(cache)
    /\ hist[KeyOf(1)].t0 = 1
    /\ hist[KeyOf(1)].used > hist[KeyOf(1)].t0

----------------------------------------------------------------------------
(* Claims about the handlers in full-pagination mode (SpecPaginate)        *)

\* app.config holds limit = -1
PagedMode == config.hasLimit /\ config.limit = -1

\* the offsets a generator of `kind` fetches when its first chunk reports
\* the size the collection has at the first post
PagedOffsets(outs, total, kind) ==
    ExpectedOffsets(TotalAt(outs, 1, total), PageSize[kind])

\* the posts of a handler call that succeeds: one per page and one more
Fetches(outs, total, kind) == Len(PagedOffsets(outs, total, kind)) + 1

\* the first n posts all succeed
AllOk(outs, n) == \A i \in 1..n : OutcomeAt(outs, i)[1] = "ok"

\* the items of the pages from the i-th on, in the order of the offsets,
\* each page as the collection held it at the time of its post
RECURSIVE PagesFrom(_, _, _, _)
PagesFrom(outs, total, kind, i) ==
    IF i > Len(PagedOffsets(outs, total, kind)) THEN <<>>
    ELSE Slice(PagedOffsets(outs, total, kind)[i], PageSize[kind],
               TotalAt(outs, i, total))
             \o PagesFrom(outs, total, kind, i + 1)

\* C17: in full-pagination mode, a handler call whose fetches all succeed
\* answers 200 with the object of its last fetch in which the items are
\* the items of all chunks of the generator, concatenated in the order of
\* increasing offset, and totalCount is the length of that list; the
\* response, computed or served, is the one entry the cache holds for the
\* key.
C17_AggregateStored ==
    (http.view \in PagedKinds /\ PagedMode) =>
        /\ (http.computed /\ AllOk(hist, Fetches(hist, upTotal, http.view))) =>
               /\ http.status = 200
               /\ http.body.mode = "paginate"
               /\ http.body.data.items = PagesFrom(hist, upTotal, http.view, 1)
               /\ http.body.data.totalCount = Len(http.body.data.items)
               /\ http.body.data.serial = srvPosts
               /\ http.body.data.op = operationName(http.view)
        /\ Len(cache) >= 1
        /\ cache[Len(cache)].key = http.key
        /\ cache[Len(cache)].value = http.body
        /\ Cardinality({i \in 1..Len(cache) : cache[i].key = http.key}) = 1

\* an album of three pages was compiled while the collection changed, and
\* the compiled list is shorter than the totalCount upstream
C17_Witness ==
    /\ PagedMode /\ http.view = "album" /\ http.computed
    /\ http.status = 200 /\ http.posts = 4
    /\ \E i \in 1..Len(hist) : Len(hist[i]) > 2
    /\ http.body.data.totalCount # upTotal
    /\ Len(http.body.data.items) > UPPER_LIMIT_ALBUM
    /\ cache[1].value = http.body

\* the first post that fails
FirstFailure(outs) == Min({i \in 1..Len(outs) : outs[i][1] # "ok"})

\* C20: in full-pagination mode a handler call answers either 200, after
\* one successful fetch per page (offsets 0, L, 2L, ... below the
\* totalCount of the first chunk) and one more successful fetch at offset
\* 0, with the items of every page; or, as soon as one of these fetches
\* fails, 404 with the error alone: the items accumulated so far are
\* discarded, and no further fetch is made.
C20_AllPagesOrError ==
    (http.view \in PagedKinds /\ PagedMode /\ http.computed) =>
        IF AllOk(hist, Fetches(hist, upTotal, http.view))
        THEN /\ http.status = 200
             /\ http.posts = Fetches(hist, upTotal, http.view)
             /\ http.body.data.items = PagesFrom(hist, upTotal, http.view, 1)
        ELSE /\ http.status = 404
             /\ http.body.data = NoPayload
             /\ http.body.excClass = ErrorClass(http.view)
             /\ http.body.error \in {FailMessage(http.view), "Invalid JSON"}
             /\ http.posts = FirstFailure(hist)

\* the further fetch at offset 0 failed after every page of an album of
\* three pages had been fetched
C20_Witness ==
    /\ PagedMode /\ http.view = "album" /\ http.computed
    /\ http.status = 404
    /\ http.posts = 4
    /\ http.posts = Fetches(hist, upTotal, http.view)

----------------------------------------------------------------------------
(* C19: the kinds in the one metadata_cache (Spec)                         *)

\* the view whose calls are cached under key k: the route's view when the
\* key holds the name of a URL variable, the view handle_full_url
\* dispatches to when the key holds a positional argument
ViewOfKey(k) ==
    IF k.kw = "" THEN Dispatch(k.arg)
    ELSE CHOOSE kind \in ResourceKinds : UrlVariable(kind) = k.kw

\* v is a value the view of `kind` returns: the payload of its operation,
\* or the error of its kind, or the exception of its resource class
ValueOfKind(v, kind) ==
    IF v.status = 200 THEN v.data.op = operationName(kind)
    ELSE IF v.excClass \in {ErrorClass(k) : k \in ResourceKinds}
    THEN v.excClass = ErrorClass(kind)
    ELSE v.error \in {IdNotSetMessage(kind), SlotMessage(kind)}

\* C19: every entry of metadata_cache holds a value the view of its key
\* computed, a request is looked up under a key of the view that handles
\* it, and so what the cache serves to a request handled as kind K is a
\* value the handler of K returned, whatever was requested with the same
\* input string under another kind.
C19_KindIsolation ==
    /\ \A i \in 1..Len(cache) :
          ValueOfKind(cache[i].value, ViewOfKey(cache[i].key))
    /\ http.view # "none" =>
          /\ ViewOfKey(http.key) = http.view
          /\ ValueOfKind(http.body, http.view)
          /\ ~http.computed => http.body = hist[http.key].value

\* the album was served from the cache while the cache held the track
\* stored for the same input string
C19_Witness ==
    /\ http.view = "album" /\ ~http.computed
    /\ http.key = hashkey("album_input", TokenA)
    /\ http.body.status = 200
    /\ http.body.data.op = "getAlbum"
    /\ IndexOf(cache, hashkey("track_input", TokenA)) > 0
    /\ cache[IndexOf(cache, hashkey("track_input", TokenA))].value.data.op
          = "getTrack"

====
